---- MODULE Spec2Model ----
(***************************************************************************)
(* Model of the flutter-release rebrand-and-release scripts.               *)
(*                                                                         *)
(* The repository holds several generations of the same script.  Four of   *)
(* them are modelled as "pipelines":                                       *)
(*   android  src/android.js lines 243-705 (Debug/Release, keystore)       *)
(*   ios      src/ios.js                                                   *)
(*   multi    src/unnamed/part_000 lines 1-349 (Android and/or iOS)        *)
(*   legacy   src/unnamed/part_000 lines 351-598 (clean && apk && ios)     *)
(* and, for the rewriting stages, the first Android script:                *)
(*   part_001 src/unnamed/part_001 (Android only, one build command)       *)
(*                                                                         *)
(* Text is a sequence of atoms (strings); a name is a text, a path is a    *)
(* sequence of names, and the file system maps paths to file contents.     *)
(***************************************************************************)
EXTENDS Integers, Sequences, FiniteSets, TLC

VARIABLES
    fs,            \* the file system: path -> content
    run,           \* number of script invocations started so far
    pc,            \* position of main() of the running invocation
    cfg,           \* answers of promptUser() and host facts of this invocation
    cmdLog,        \* external build commands spawned by this invocation
    chain,         \* commands of the current shell chain not yet spawned
    pending,       \* fs.copyFile operations started and not completed
    outcome,       \* how the invocation ended
    err,           \* the value main() caught: the rejection of the icon tasks
                   \* or of the build orchestrator
    entered,       \* stages entered by this invocation, in order
    returned,      \* stages (and the key generation) that have completed and
                   \* returned to main()
    keytoolCalls,  \* keytool -genkeypair invocations, over all runs
    credPrompts,   \* credential prompts asked, over all runs
    copyLog        \* results of completed fs.copyFile operations of this run

vars == <<fs, run, pc, cfg, cmdLog, chain, pending, outcome, err, entered,
          returned, keytoolCalls, credPrompts, copyLog>>

----------------------------------------------------------------------------
(* Bounds *)

MaxRuns == 2

MaxExit == 1

\* longest bundle identifier, in characters, of the identifier check
MaxIdLen == 5

ExitCodes == 0..MaxExit

----------------------------------------------------------------------------
(* Text and paths *)

IsPrefix(s, t) == Len(s) <= Len(t) /\ SubSeq(t, 1, Len(s)) = s

RECURSIVE Flatten(_)
Flatten(p) == IF p = <<>> THEN <<>> ELSE <<"/">> \o Head(p) \o Flatten(Tail(p))

\* path.resolve: the absolute, normalised path as a string of atoms
resolve(p) == Flatten(p)

\* String.prototype.startsWith
startsWith(s, t) == IsPrefix(t, s)

\* dest is src or lies inside src
IsSameOrDescendant(dest, src) == IsPrefix(src, dest)

N(s) == <<s>>

parentDir == <<N("w")>>

dirname == parentDir \o <<N("tool")>>

outputDir(pl) ==
    IF pl = "ios" THEN dirname \o <<<<"shippable", "_ios">>>>
    ELSE dirname \o <<N("shippable")>>

TemplateDir == parentDir \o <<N("prep")>>

\* bundleName.replace('.', '_'): the first dot only
RECURSIVE convertFirstDotOnly(_)
convertFirstDotOnly(b) ==
    IF b = <<>> THEN <<>>
    ELSE IF Head(b) = "." THEN <<"_">> \o Tail(b)
    ELSE <<Head(b)>> \o convertFirstDotOnly(Tail(b))

RECURSIVE convertBundleNameToFolderName(_)
convertBundleNameToFolderName(b) ==
    IF b = <<>> THEN <<>>
    ELSE <<IF Head(b) = "." THEN "_" ELSE Head(b)>>
         \o convertBundleNameToFolderName(Tail(b))

BundleNames == { <<"com", ".", "acme">>, <<"com", ".", "acme", ".", "app">> }

appDirOf(pl, bundle) == outputDir(pl) \o <<convertBundleNameToFolderName(bundle)>>

\* resolveFlutterAppPath: a bare folder name is a sibling of the tool
\* directory, anything else is taken as a path
resolveFlutterAppPath(answer) ==
    IF answer.isPath THEN answer.path ELSE parentDir \o <<answer.name>>

FolderAnswers(pl, bundle) ==
    { [isPath |-> FALSE, name |-> N("prep"), path |-> <<>>] }
    \cup { [isPath |-> TRUE, name |-> <<>>, path |-> p] :
             p \in { dirname, outputDir(pl), appDirOf(pl, bundle) } }

----------------------------------------------------------------------------
(* File system *)

DirMark == <<"<dir>">>

pathExists(f, p) == \E q \in DOMAIN f : IsPrefix(p, q)

Under(f, p) == { q \in DOMAIN f : IsPrefix(p, q) }

Parent(p) == SubSeq(p, 1, Len(p) - 1)

\* a directory is listed (as DirMark) only while it is empty
put(f, p, c) ==
    LET marks == { q \in DOMAIN f : f[q] = DirMark /\ IsPrefix(q, p) /\ q # p }
    IN  [q \in ((DOMAIN f) \ marks) \cup {p} |-> IF q = p THEN c ELSE f[q]]

\* fs.remove / fs.removeSync: recursive, silent when absent; the parent
\* directory stays, possibly empty
remove(f, p) ==
    LET g == [q \in (DOMAIN f) \ Under(f, p) |-> f[q]]
    IN  IF pathExists(f, p) /\ Len(p) > 1 /\ ~pathExists(g, Parent(p))
        THEN put(g, Parent(p), DirMark) ELSE g

\* fs.writeFileSync; the caller has checked that the directory exists
writeFile(f, p, c) == put(f, p, c)

ensureDir(f, p) == IF pathExists(f, p) THEN f ELSE put(f, p, DirMark)

Rebase(q, src, dst) == dst \o SubSeq(q, Len(src) + 1, Len(q))

\* the recursive overlay done by fs.copy / fs.copySync once its checks passed
copyTree(f, src, dst) ==
    LET srcs == { q \in Under(f, src) :
                    ~(f[q] = DirMark /\ pathExists(f, Rebase(q, src, dst))) }
        moved == { Rebase(q, src, dst) : q \in srcs }
        from(t) == CHOOSE q \in srcs : Rebase(q, src, dst) = t
        keep == { q \in DOMAIN f :
                    ~(f[q] = DirMark /\ \E t \in moved : IsPrefix(q, t) /\ q # t) }
    IN  [t \in keep \cup moved |-> IF t \in moved THEN f[from(t)] ELSE f[t]]

\* fs-extra's own refusal: a missing source, or a destination that is the
\* source or lies inside it
copyRefused(f, src, dst) == ~pathExists(f, src) \/ IsSameOrDescendant(dst, src)

isFile(f, p) == p \in DOMAIN f /\ f[p] # DirMark

----------------------------------------------------------------------------
(* Pattern substitution over text *)

\* index of the closing atom of /open[^close]{min,}close/ matched at j, or 0
MatchEnd(text, open, close, min, j) ==
    IF text[j] # open THEN 0
    ELSE LET ks == { k \in (j + 1)..Len(text) : text[k] = close }
         IN  IF ks = {} THEN 0
             ELSE LET k == CHOOSE x \in ks : \A y \in ks : x <= y
                  IN  IF k - j - 1 >= min THEN k ELSE 0

\* start of the first match of /open[^close]{min,}close/, or 0
MatchStart(text, open, close, min) ==
    LET js == { j \in 1..Len(text) : MatchEnd(text, open, close, min, j) # 0 }
    IN  IF js = {} THEN 0 ELSE CHOOSE x \in js : \A y \in js : x <= y

\* the replacement string as String.prototype.replace inserts it: $& stands
\* for the matched text and $$ for a dollar sign; $1 stays as it is, the
\* patterns of the scripts having no capture group where a value is inserted
RECURSIVE substitution(_, _)
substitution(with, matched) ==
    IF with = <<>> THEN <<>>
    ELSE (CASE Head(with) = "$&" -> matched
            [] Head(with) = "$$" -> <<"$">>
            [] OTHER -> <<Head(with)>>)
         \o substitution(Tail(with), matched)

\* String.prototype.replace with a non-global pattern: the first match only
replaceFirst(text, open, close, min, with) ==
    LET j == MatchStart(text, open, close, min)
    IN  IF j = 0 THEN text
        ELSE SubSeq(text, 1, j - 1)
             \o substitution(with,
                    SubSeq(text, j, MatchEnd(text, open, close, min, j)))
             \o SubSeq(text, MatchEnd(text, open, close, min, j) + 1, Len(text))

\* the capture group of the first match
captured(text, open, close, min) ==
    LET j == MatchStart(text, open, close, min)
    IN  SubSeq(text, j + 1, MatchEnd(text, open, close, min, j) - 1)

\* String.prototype.split on a one-atom separator
RECURSIVE split(_, _)
split(text, sep) ==
    LET is == { i \in 1..Len(text) : text[i] = sep }
    IN  IF is = {} THEN <<text>>
        ELSE LET i == CHOOSE x \in is : \A y \in is : x <= y
             IN  <<SubSeq(text, 1, i - 1)>> \o split(SubSeq(text, i + 1, Len(text)), sep)

\* /package .+;/ : greedy, within one line, up to the last ';' of that line
packageLineEnd(text, j) ==
    IF text[j] # "package " THEN 0
    ELSE LET nls == { k \in (j + 1)..Len(text) : text[k] = "\n" }
             eol == IF nls = {} THEN Len(text) + 1
                    ELSE CHOOSE x \in nls : \A y \in nls : x <= y
             semis == { k \in (j + 2)..(eol - 1) : text[k] = ";" }
         IN  IF semis = {} THEN 0 ELSE CHOOSE x \in semis : \A y \in semis : x >= y

replacePackageLine(text, with) ==
    LET js == { j \in 1..Len(text) : packageLineEnd(text, j) # 0 }
    IN  IF js = {} THEN text
        ELSE LET j == CHOOSE x \in js : \A y \in js : x <= y
             IN  SubSeq(text, 1, j - 1)
                 \o substitution(with, SubSeq(text, j, packageLineEnd(text, j)))
                 \o SubSeq(text, packageLineEnd(text, j) + 1, Len(text))

----------------------------------------------------------------------------
(* The template project and the host *)

OldPackage == <<"com", ".", "prepto">>

AppName == <<"Acme">>

\* display names promptUser() accepts as they are typed: any text
AppNames == { AppName, <<"Cash", "$&">>, <<"A", "$$", "B">>, <<"Top", "$1">> }

androidDir(projectDir) == projectDir \o <<N("android")>>

androidManifestPath(projectDir) ==
    androidDir(projectDir)
    \o <<N("app"), N("src"), N("main"), N("AndroidManifest.xml")>>

buildGradlePath(projectDir) == androidDir(projectDir) \o <<N("app"), N("build.gradle")>>

kotlinPath(projectDir) ==
    androidDir(projectDir) \o <<N("app"), N("src"), N("main"), N("kotlin")>>

configFilePath(projectDir) == projectDir \o <<N("lib"), N("config.dart")>>

pubspecPath(projectDir) == projectDir \o <<N("pubspec.yaml")>>

infoPlistPath(projectDir) == projectDir \o <<N("ios"), N("Runner"), N("Info.plist")>>

TemplateFiles ==
    LET d == TemplateDir IN
    ( androidManifestPath(d) :>
          (<<"package=\"">> \o OldPackage
           \o <<"\"", " ", "android:label=\"", "Prep", "\"">>) )
    @@ ( buildGradlePath(d) :> (<<"applicationId \"">> \o OldPackage \o <<"\"">>) )
    @@ ( (kotlinPath(d) \o split(OldPackage, ".") \o <<N("MainActivity.kt")>>) :>
          (<<"package ">> \o OldPackage \o <<"\n", "class MainActivity">>) )
    @@ ( configFilePath(d) :>
          <<"const int OFFLINE_CATEGORY_ID = ", "1", ";", "\n",
            "const String API_URL = '", "old", "';">> )
    @@ ( pubspecPath(d) :> <<"version: ", "1.0.0", "+", "1">> )
    @@ ( infoPlistPath(d) :>
          (<<"<key>CFBundleIdentifier</key><string>">> \o OldPackage
           \o <<"</string>", "<key>CFBundleName</key><string>", "Prep", "</string>">>) )

androidTargets ==
    << [size |-> 48, dir |-> N("mipmap-mdpi")],
       [size |-> 72, dir |-> N("mipmap-hdpi")],
       [size |-> 96, dir |-> N("mipmap-xhdpi")],
       [size |-> 144, dir |-> N("mipmap-xxhdpi")],
       [size |-> 192, dir |-> N("mipmap-xxxhdpi")] >>

launcherIconPath(pd, target) ==
    androidDir(pd)
    \o <<N("app"), N("src"), N("main"), N("res"), target.dir, N("ic_launcher.png")>>

iosIconSizes ==
    << [size |-> 20, scales |-> <<2, 3>>],
       [size |-> 29, scales |-> <<1, 2, 3>>],
       [size |-> 40, scales |-> <<2, 3>>],
       [size |-> 60, scales |-> <<2, 3>>] >>

appIconSetPath(pd) ==
    pd \o <<N("ios"), N("Runner"), N("Assets.xcassets"), N("AppIcon.appiconset")>>

\* the default launcher icons and icon set every Flutter project carries
TemplateIcons ==
    [q \in { launcherIconPath(TemplateDir, androidTargets[i]) :
               i \in 1..Len(androidTargets) } |-> <<"png", "default">>]
    @@ ( (appIconSetPath(TemplateDir) \o <<N("Contents.json")>>) :> <<"json">> )

podfilePath(pd) == pd \o <<N("ios"), N("Podfile")>>

xcodeprojPath(pd) == pd \o <<N("ios"), N("Runner.xcodeproj"), N("project.pbxproj")>>

xcconfigPath(pd) == pd \o <<N("ios"), N("config"), N("build.xcconfig")>>

\* the iOS half of the template: two build configurations in the project file
TemplateIOS ==
    ( podfilePath(TemplateDir) :> <<"platform :ios, '", "11.0", "'">> )
    @@ ( xcodeprojPath(TemplateDir) :>
          <<"buildSettings = {", "DEVELOPMENT_TEAM = ", "OLDTEAM", ";",
            "CODE_SIGN_STYLE = ", "Manual", ";", "};",
            "buildSettings = {", "DEVELOPMENT_TEAM = ", "OLDTEAM", ";",
            "CODE_SIGN_STYLE = ", "Manual", ";", "};">> )

keystoreFileName == N("my-release-key.jks")

defaultKeystorePath == dirname \o <<keystoreFileName>>

defaultKeyPropertiesPath == dirname \o <<N("key.properties")>>

iconPath == dirname \o <<N("icon.png")>>

ScriptFiles == (dirname \o <<N("android.js")>>) :> <<"script">>

\* ~/Library/Developer/Xcode/DerivedData
derivedDataPath == <<N("home"), N("Library"), N("Developer"), N("Xcode"), N("DerivedData")>>

XcodeFiles == (derivedDataPath \o <<N("Runner-cache")>>) :> <<"derived">>

\* what a host may hold before the first run: a custom icon (beside the
\* script and in the template) or none, and a signing cache that is empty,
\* holds a keystore, or holds a keystore with its secrets
\* the entry files updateAndroidFiles looks for under the old package path
ktPath(d) == kotlinPath(d) \o split(OldPackage, ".") \o <<N("MainActivity.kt")>>

javaPath(d) == kotlinPath(d) \o split(OldPackage, ".") \o <<N("MainActivity.java")>>

javaActivity == <<"package ">> \o OldPackage \o <<";", "\n", "class MainActivity">>

\* a manifest without a package attribute
manifestNoPackage == <<"<manifest ", "android:label=\"", "Prep", "\"">>

\* a manifest that names the package a second time, in the activity name
manifestTwice ==
    <<"package=\"">> \o OldPackage
    \o <<"\"", " ", "android:label=\"", "Prep", "\"", " ", "android:name=\"">>
    \o OldPackage \o <<".MainActivity", "\"">>

\* a build.gradle with namespace and applicationId
gradleTwice ==
    <<"namespace \"">> \o OldPackage \o <<"\"", "\n", "applicationId \"">>
    \o OldPackage \o <<"\"">>

\* a pubspec version line without a build number
pubspecNameOnly == <<"version: ", "1.0.0">>

\* a config.dart with every setting and a declaration of its own
configFull ==
    <<"const int OFFLINE_CATEGORY_ID = ", "1", ";", "\n",
      "const int PAGE_SIZE = ", "20", ";", "\n",
      "const String API_URL = '", "old", "';", "\n",
      "const String ANDROID_PRODUCT_ID = '", "free", "';">>

\* a config.dart with none of the settings
configBare == <<"const int PAGE_SIZE = ", "20", ";">>

\* a project whose res folder lacks two density buckets and whose asset
\* catalog has no AppIcon set
TemplateIconsSparse ==
    [q \in { launcherIconPath(TemplateDir, androidTargets[i]) :
               i \in {1, 4, 5} } |-> <<"png", "default">>]

\* the templates a user may hand to the scripts: the default one and the
\* ones that differ from it in one file
TemplateVariants ==
    LET d == TemplateDir
        base == TemplateFiles
        noKt == [q \in DOMAIN base \ {ktPath(d)} |-> base[q]]
    IN  { base,
          (androidManifestPath(d) :> manifestNoPackage) @@ base,
          (androidManifestPath(d) :> manifestTwice) @@ base,
          (buildGradlePath(d) :> gradleTwice) @@ base,
          (javaPath(d) :> javaActivity) @@ noKt,
          (javaPath(d) :> javaActivity) @@ base,
          ((kotlinPath(d) \o split(OldPackage, ".")) :> DirMark) @@ noKt,
          (pubspecPath(d) :> pubspecNameOnly) @@ base,
          (configFilePath(d) :> configFull) @@ base,
          (configFilePath(d) :> configBare) @@ base }

HostFiles(icon, cache) ==
    ScriptFiles @@ XcodeFiles
    @@ (IF icon THEN iconPath :> <<"png", "icon">> ELSE <<>>)
    @@ (IF icon THEN (TemplateDir \o <<N("icon.png")>>) :> <<"png", "icon">> ELSE <<>>)
    @@ (IF cache \in {"keystore", "both"}
        THEN defaultKeystorePath :> <<"jks", "0">> ELSE <<>>)
    @@ (IF cache = "both"
        THEN defaultKeyPropertiesPath :> <<"storePassword=", "secret0">> ELSE <<>>)

----------------------------------------------------------------------------
(* The invocation: main() and the stages it calls *)

Pipelines == {"android", "ios", "multi", "legacy"}

NoError == [msg |-> "", code |-> -1]

\* before the first run only the script to be used is known
NoCfg ==
    [pipeline |-> "none", buildMode |-> "n/a", folder |-> <<>>,
     bundleName |-> <<>>, appName |-> <<>>, buildAndroid |-> FALSE,
     buildIOS |-> FALSE, keytool |-> FALSE]

\* the answers promptUser() can return for a pipeline, with the host fact
\* (keytool resolvable or not) the invocation will observe
Answers(pl) ==
    { [pipeline |-> pl, buildMode |-> m, folder |-> resolveFlutterAppPath(a),
       bundleName |-> b, appName |-> AppName, buildAndroid |-> ba, buildIOS |-> bi,
       keytool |-> k] :
        m \in (IF pl \in {"android", "ios"} THEN {"Debug", "Release"} ELSE {"n/a"}),
        b \in BundleNames,
        a \in UNION { FolderAnswers(pl, x) : x \in BundleNames },
        ba \in (CASE pl = "multi" -> BOOLEAN [] pl = "ios" -> {FALSE} [] OTHER -> {TRUE}),
        bi \in (CASE pl = "multi" -> BOOLEAN [] pl \in {"android", "part_001"} -> {FALSE}
                  [] OTHER -> {TRUE}),
        k \in (IF pl = "android" THEN BOOLEAN ELSE {TRUE}) }

projectDir == appDirOf(cfg.pipeline, cfg.bundleName)

Init ==
    /\ \E icon \in BOOLEAN, cache \in {"none", "keystore", "both"} :
           fs = TemplateFiles @@ TemplateIcons @@ TemplateIOS @@ HostFiles(icon, cache)
    /\ run = 0
    /\ pc = "idle"
    /\ \E pl \in Pipelines : cfg = [NoCfg EXCEPT !.pipeline = pl]
    /\ cmdLog = <<>>
    /\ chain = <<>>
    /\ pending = {}
    /\ outcome = "none"
    /\ err = NoError
    /\ entered = <<>>
    /\ returned = {}
    /\ keytoolCalls = 0
    /\ credPrompts = 0
    /\ copyLog = {}

\* node <script>: promptUser() has returned
StartRun ==
    /\ pc = "idle"
    /\ run < MaxRuns
    /\ run' = run + 1
    /\ \E a \in Answers(cfg.pipeline) : cfg' = a
    /\ pc' = "copyProject"
    /\ cmdLog' = <<>>
    /\ chain' = <<>>
    /\ outcome' = "none"
    /\ err' = NoError
    /\ entered' = <<>>
    /\ returned' = {}
    /\ copyLog' = {}
    /\ UNCHANGED <<fs, pending, keytoolCalls, credPrompts>>

\* the catch block of main(): the error is printed and main() returns
Caught(how) ==
    /\ pc' = "done"
    /\ outcome' = how

\* an exception outside any try block: the process dies at once
Crash ==
    /\ pc' = "idle"
    /\ outcome' = "crashed"
    /\ pending' = {}

Enter(stage) == entered' = Append(entered, stage)

EnterAndReturn(stage) ==
    /\ entered' = Append(entered, stage)
    /\ returned' = returned \cup {stage}

\* prepareDirectory removing the folder before it asks
copyProjectDeleteThenAsk ==
    /\ pc = "copyProject"
    /\ cfg.pipeline \in {"android", "ios"}
    /\ Enter("Materializer")
    /\ LET appDir == projectDir IN
       \E confirmDelete \in BOOLEAN :
          IF pathExists(fs, appDir) /\ ~confirmDelete
          THEN /\ Caught("cancelled")
               /\ fs' = remove(fs, appDir)
               /\ UNCHANGED returned
          ELSE LET f1 == IF pathExists(fs, appDir) THEN remove(fs, appDir) ELSE fs
               IN  IF copyRefused(f1, cfg.folder, appDir)
                   THEN /\ fs' = f1
                        /\ Caught("error")
                        /\ UNCHANGED returned
                   ELSE /\ fs' = copyTree(f1, cfg.folder, appDir)
                        /\ returned' = returned \cup {"Materializer"}
                        /\ pc' = "updateAppIcon"
                        /\ UNCHANGED outcome
    /\ UNCHANGED <<run, cfg, cmdLog, chain, pending, err, keytoolCalls,
                   credPrompts, copyLog>>

\* copyProject with prepareDirectory: an existing destination is removed on
\* confirmation, the run is cancelled on decline
copyProject ==
    /\ pc = "copyProject"
    /\ cfg.pipeline \in {"android", "ios"}
    /\ Enter("Materializer")
    /\ LET appDir == projectDir IN
       \E confirmDelete \in BOOLEAN :
          IF pathExists(fs, appDir) /\ ~confirmDelete
          THEN /\ Caught("cancelled")
               /\ UNCHANGED <<fs, returned>>
          ELSE LET f1 == IF pathExists(fs, appDir) THEN remove(fs, appDir) ELSE fs
               IN  IF copyRefused(f1, cfg.folder, appDir)
                   THEN /\ fs' = f1
                        /\ Caught("error")
                        /\ UNCHANGED returned
                   ELSE /\ fs' = copyTree(f1, cfg.folder, appDir)
                        /\ returned' = returned \cup {"Materializer"}
                        /\ pc' = "updateAppIcon"
                        /\ UNCHANGED outcome
    /\ UNCHANGED <<run, cfg, cmdLog, chain, pending, err, keytoolCalls,
                   credPrompts, copyLog>>

\* sharp(icon).resize(d, d).toFile(dest): the pure resize, written when
\* the directory of dest exists; the task fails otherwise
resized(d) == <<"png", ToString(d)>>

\* Promise.all over tasks of which several reject: the promise rejects with
\* the reason of the one that rejected first, the other reasons are dropped
promiseAllRejection(first) ==
    [msg |-> "toFile", code |-> -1, tasks |-> {first}]

RECURSIVE resizeAll(_, _)
resizeAll(f, tasks) ==
    IF tasks = <<>> THEN [fs |-> f, failed |-> {}]
    ELSE LET t == Head(tasks)
             ok == pathExists(f, Parent(t.dest))
             rest == resizeAll(IF ok THEN put(f, t.dest, resized(t.dim)) ELSE f,
                               Tail(tasks))
         IN  [fs |-> rest.fs,
              failed |-> rest.failed \cup (IF ok THEN {} ELSE {t.dest})]

androidIconTasks(pd) ==
    [i \in 1..Len(androidTargets) |->
        [dest |-> launcherIconPath(pd, androidTargets[i]),
         dim |-> androidTargets[i].size]]

\* updateAppIcon (Android): a no-op without a custom icon beside the script
updateAppIcon ==
    /\ pc = "updateAppIcon"
    /\ cfg.pipeline = "android"
    /\ Enter("AssetUpdater")
    /\ IF pathExists(fs, iconPath)
       THEN LET r == resizeAll(fs, androidIconTasks(projectDir))
            IN  /\ fs' = r.fs
                /\ IF r.failed = {}
                   THEN /\ returned' = returned \cup {"AssetUpdater"}
                        /\ pc' = "updateFiles"
                        /\ UNCHANGED <<outcome, err>>
                   ELSE /\ Caught("error")
                        /\ \E first \in r.failed : err' = promiseAllRejection(first)
                        /\ UNCHANGED returned
       ELSE /\ returned' = returned \cup {"AssetUpdater"}
            /\ pc' = "updateFiles"
            /\ UNCHANGED <<fs, outcome, err>>
    /\ UNCHANGED <<run, cfg, cmdLog, chain, pending, keytoolCalls,
                   credPrompts, copyLog>>

\* fs.moveSync of one file; the caller has checked source and destination
moveSync(f, from, to) ==
    LET c == f[from]
        g == remove(f, from)
    IN  put(g, to, c)

moveRefused(f, from, to) == ~isFile(f, from) \/ pathExists(f, to)

\* updateAndroidFiles going on without the package attribute it looks for
rewriteManifestUnchecked(f, bundleName, appName, pd) ==
    LET mp == androidManifestPath(pd) IN
    IF ~isFile(f, mp) THEN [threw |-> TRUE, fs |-> f, old |-> <<>>]
    ELSE [threw |-> FALSE,
          fs |-> writeFile(f, mp,
                     IF appName = <<>> THEN f[mp]
                     ELSE replaceFirst(f[mp], "android:label=\"", "\"", 1,
                              <<"android:label=\"">> \o appName \o <<"\"">>)),
          old |-> kotlinPath(pd)]

\* updateAndroidFiles, first part: the package name is read from the manifest,
\* which is rewritten (part_000 does not touch android:label: appName is
\* <<>> there); old is the directory of the old package
rewriteManifest(f, bundleName, appName, pd) ==
    LET mp == androidManifestPath(pd) IN
    IF ~isFile(f, mp) \/ MatchStart(f[mp], "package=\"", "\"", 1) = 0
    THEN [threw |-> TRUE, fs |-> f, old |-> <<>>]
    ELSE
    LET m1 == replaceFirst(f[mp], "package=\"", "\"", 1,
                           <<"package=\"">> \o bundleName \o <<"\"">>)
    IN  [threw |-> FALSE,
         fs |-> writeFile(f, mp,
                    IF appName = <<>> THEN m1
                    ELSE replaceFirst(m1, "android:label=\"", "\"", 1,
                             <<"android:label=\"">> \o appName \o <<"\"">>)),
         old |-> kotlinPath(pd) \o split(captured(f[mp], "package=\"", "\"", 1), ".")]

\* updateAndroidFiles, second part: build.gradle
rewriteGradle(r, bundleName, pd) ==
    LET gp == buildGradlePath(pd) IN
    IF r.threw THEN r
    ELSE IF ~isFile(r.fs, gp) THEN [r EXCEPT !.threw = TRUE]
    ELSE [r EXCEPT !.fs =
            writeFile(r.fs, gp,
                replaceFirst(r.fs[gp], "applicationId \"", "\"", 1,
                             <<"applicationId \"">> \o bundleName \o <<"\"">>))]

\* updateAndroidFiles, third part: the new package directory is made
ensureNewPackage(r, bundleName, pd) ==
    IF r.threw THEN r
    ELSE [r EXCEPT !.fs = ensureDir(r.fs, kotlinPath(pd) \o split(bundleName, "."))]

\* the main activity moved and its package line rewritten
movedActivity(f, from, to, bundleName) ==
    LET f4 == moveSync(f, from, to)
    IN  writeFile(f4, to,
            replacePackageLine(f4[to], <<"package ">> \o bundleName \o <<";">>))

\* updateAndroidFiles looking for MainActivity.java first
moveMainActivityJavaFirst(r, bundleName, pd) ==
    IF r.threw THEN [threw |-> TRUE, fs |-> r.fs]
    ELSE
    LET mainActivityFile ==
            IF pathExists(r.fs, r.old \o <<N("MainActivity.java")>>)
            THEN N("MainActivity.java") ELSE N("MainActivity.kt")
        from == r.old \o <<mainActivityFile>>
        to == kotlinPath(pd) \o split(bundleName, ".") \o <<mainActivityFile>>
    IN  IF moveRefused(r.fs, from, to) THEN [threw |-> TRUE, fs |-> r.fs]
        ELSE [threw |-> FALSE, fs |-> movedActivity(r.fs, from, to, bundleName)]

\* updateAndroidFiles, last part: MainActivity moves to the new package
moveMainActivity(r, bundleName, pd) ==
    IF r.threw THEN [threw |-> TRUE, fs |-> r.fs]
    ELSE
    LET mainActivityFile ==
            IF pathExists(r.fs, r.old \o <<N("MainActivity.kt")>>)
            THEN N("MainActivity.kt") ELSE N("MainActivity.java")
        from == r.old \o <<mainActivityFile>>
        to == kotlinPath(pd) \o split(bundleName, ".") \o <<mainActivityFile>>
    IN  IF moveRefused(r.fs, from, to) THEN [threw |-> TRUE, fs |-> r.fs]
        ELSE [threw |-> FALSE, fs |-> movedActivity(r.fs, from, to, bundleName)]

\* updateAndroidFiles: the file system it leaves, and whether it threw
updateAndroidFiles(f, bundleName, appName, pd) ==
    moveMainActivity(
        ensureNewPackage(
            rewriteGradle(rewriteManifest(f, bundleName, appName, pd), bundleName, pd),
            bundleName, pd),
        bundleName, pd)

\* updateConfigFiles of android.js and ios.js; androidProductId only on Android
updateConfigFiles(f, offlineCategoryId, apiUrl, androidProductId, pd) ==
    LET cp == configFilePath(pd) IN
    IF ~isFile(f, cp) THEN [threw |-> TRUE, fs |-> f]
    ELSE
    LET c1 == replaceFirst(f[cp], "const int OFFLINE_CATEGORY_ID = ", ";", 0,
                  <<"const int OFFLINE_CATEGORY_ID = ", offlineCategoryId, ";">>)
        c2 == replaceFirst(c1, "const String API_URL = '", "';", 0,
                  <<"const String API_URL = '", apiUrl, "';">>)
        c3 == IF androidProductId = "" THEN c2
              ELSE replaceFirst(c2, "const String ANDROID_PRODUCT_ID = '", "';", 0,
                  <<"const String ANDROID_PRODUCT_ID = '", androidProductId, "';">>)
    IN  [threw |-> FALSE, fs |-> writeFile(f, cp, c3)]

VersionNames == {"1.0.0", "2.0.0"}

VersionCodes == {"1", "7"}

\* /version:\s*([0-9.]+)\+([0-9]+)/ matched at j
versionMatchAt(text, j) ==
    /\ j + 3 <= Len(text)
    /\ text[j] = "version: "
    /\ text[j + 1] \in VersionNames
    /\ text[j + 2] = "+"
    /\ text[j + 3] \in VersionCodes

replaceVersion(text, with) ==
    LET js == { j \in 1..Len(text) : versionMatchAt(text, j) }
    IN  IF js = {} THEN text
        ELSE LET j == CHOOSE x \in js : \A y \in js : x <= y
             IN  SubSeq(text, 1, j - 1) \o substitution(with, SubSeq(text, j, j + 3))
                 \o SubSeq(text, j + 4, Len(text))

\* updatePubspecVersion (Android): version: <name>+<code>
updatePubspecVersion(f, versionName, versionCode, pd) ==
    IF ~isFile(f, pubspecPath(pd)) THEN [threw |-> TRUE, fs |-> f]
    ELSE [threw |-> FALSE,
          fs |-> writeFile(f, pubspecPath(pd),
                     replaceVersion(f[pubspecPath(pd)],
                                    <<"version: ", versionName, "+", versionCode>>))]

\* a synchronous step of main() inside the try block
SyncStep(r, stage, next) ==
    /\ fs' = r.fs
    /\ entered' = Append(entered, stage)
    /\ IF r.threw
       THEN /\ Caught("error")
            /\ UNCHANGED returned
       ELSE /\ returned' = returned \cup {stage}
            /\ pc' = next
            /\ UNCHANGED outcome
    /\ UNCHANGED <<run, cfg, cmdLog, chain, pending, err, keytoolCalls,
                   credPrompts, copyLog>>

updateFilesAndroid ==
    /\ pc = "updateFiles"
    /\ cfg.pipeline = "android"
    /\ SyncStep(updateAndroidFiles(fs, cfg.bundleName, cfg.appName, projectDir),
                "IdentityRewriter", "updateConfigFiles")

updateConfigAndroid ==
    /\ pc = "updateConfigFiles"
    /\ cfg.pipeline = "android"
    /\ SyncStep(updateConfigFiles(fs, "2", "https://api", "premium", projectDir),
                "ConfigPropagation",
                IF cfg.buildMode = "Release" THEN "updatePubspecVersion"
                ELSE "buildApp")

stampVersionAndroid ==
    /\ pc = "updatePubspecVersion"
    /\ cfg.pipeline = "android"
    /\ SyncStep(updatePubspecVersion(fs, "2.0.0", "7", projectDir),
                "VersionStamp", "checkKeytoolInstalled")

checkKeytoolSkipped(c) == TRUE

\* checkKeytoolInstalled: exec('keytool -help') reports no error
checkKeytoolInstalled(c) == c.keytool

\* main(): without keytool the process exits with status 1
keytoolGate ==
    /\ pc = "checkKeytoolInstalled"
    /\ IF checkKeytoolInstalled(cfg)
       THEN /\ pc' = "generateKeystore"
            /\ UNCHANGED <<outcome, pending>>
       ELSE /\ pc' = "idle"
            /\ outcome' = "exit1"
            /\ pending' = {}
    /\ UNCHANGED <<fs, run, cfg, cmdLog, chain, err, entered, returned,
                   keytoolCalls, credPrompts, copyLog>>

keystorePath(pd) == androidDir(pd) \o <<keystoreFileName>>

keyPropertiesPath(pd) == androidDir(pd) \o <<N("key.properties")>>

keystoreConfig ==
    <<"storePassword=", "secret", "\n", "keyPassword=", "secret", "\n",
      "keyAlias=", "ccp", "\n", "storeFile=../", "my-release-key.jks">>

CopyOp(from, to) == [src |-> from, dst |-> to]

\* the copies generateKeystore starts when the cached keystore exists
cachedCopies(pd) ==
    { CopyOp(defaultKeystorePath, keystorePath(pd)),
      CopyOp(defaultKeyPropertiesPath, keyPropertiesPath(pd)) }

\* the copy generateKeystore starts after a successful key generation
generatedCopies(pd) == { CopyOp(defaultKeystorePath, keystorePath(pd)) }

\* where the generate branch writes the secrets file
generatedKeyPropertiesPath(pd) == keyPropertiesPath(pd)

keystoreCachedNever(f) == FALSE

\* generateKeystore's test: await fs.pathExists(defaultKeystorePath)
keystoreCached(f) == pathExists(f, defaultKeystorePath)

\* generateKeystore: reuse the cached keystore, or prompt and spawn keytool
generateKeystore ==
    /\ pc = "generateKeystore"
    /\ entered' = Append(entered, "CredentialStore")
    /\ IF keystoreCached(fs)
       THEN /\ pending' = pending \cup cachedCopies(projectDir)
            /\ returned' = returned \cup {"CredentialStore"}
            /\ pc' = "buildApp"
            /\ UNCHANGED <<fs, keytoolCalls, credPrompts, outcome>>
       ELSE /\ credPrompts' = credPrompts + 1
            /\ IF pathExists(fs, androidDir(projectDir))
               THEN /\ fs' = writeFile(fs, generatedKeyPropertiesPath(projectDir),
                                       keystoreConfig)
                    /\ keytoolCalls' = keytoolCalls + 1
                    /\ pc' = "keytool"
                    /\ UNCHANGED outcome
               ELSE /\ Caught("error")
                    /\ UNCHANGED <<fs, keytoolCalls>>
            /\ UNCHANGED <<pending, returned>>
    /\ UNCHANGED <<run, cfg, cmdLog, chain, err, copyLog>>

\* the callback of exec(keytoolCommand)
keytoolExit ==
    /\ pc = "keytool"
    /\ \E code \in ExitCodes :
          IF code # 0
          THEN /\ Caught("error")
               /\ UNCHANGED <<fs, pending, returned>>
          ELSE /\ fs' = put(fs, defaultKeystorePath, <<"jks", ToString(keytoolCalls)>>)
               /\ pending' = pending \cup generatedCopies(projectDir)
               /\ returned' = returned \cup {"CredentialStore", "keytool -genkeypair"}
               /\ pc' = "buildApp"
               /\ UNCHANGED outcome
    /\ UNCHANGED <<run, cfg, cmdLog, chain, err, entered, keytoolCalls,
                   credPrompts, copyLog>>

\* a started fs.copyFile completes: the file is copied, or the error is
\* only printed by the callback
copyFileDone ==
    /\ pc # "idle"
    /\ \E c \in pending :
          /\ pending' = pending \ {c}
          /\ IF isFile(fs, c.src) /\ pathExists(fs, Parent(c.dst))
             THEN /\ fs' = put(fs, c.dst, fs[c.src])
                  /\ copyLog' = copyLog \cup {[op |-> c, ok |-> TRUE]}
             ELSE /\ copyLog' = copyLog \cup {[op |-> c, ok |-> FALSE]}
                  /\ UNCHANGED fs
    /\ UNCHANGED <<run, pc, cfg, cmdLog, chain, outcome, err, entered, returned,
                   keytoolCalls, credPrompts>>

\* main() has returned and nothing is left on the event loop
processExit ==
    /\ pc = "done"
    /\ pending = {}
    /\ pc' = "idle"
    /\ UNCHANGED <<fs, run, cfg, cmdLog, chain, pending, outcome, err, entered,
                   returned, keytoolCalls, credPrompts, copyLog>>

----------------------------------------------------------------------------
(* Build orchestration *)

Running == -1

apkReleasePath(pd) ==
    pd \o <<N("build"), N("app"), N("outputs"), N("apk"), N("release"),
            N("app-release.apk")>>

aabReleasePath(pd) ==
    pd \o <<N("build"), N("app"), N("outputs"), N("bundle"), N("release"),
            N("app-release.aab")>>

apkDebugPath(pd) ==
    pd \o <<N("build"), N("app"), N("outputs"), N("apk"), N("debug"),
            N("app-debug.apk")>>

iosAppPath(pd) == pd \o <<N("build"), N("ios"), N("iphoneos")>>

xcarchivePath(pd) == pd \o <<N("ios"), N("Runner.xcarchive")>>

simulatorAppPath(pd) ==
    pd \o <<N("build"), N("ios"), N("iphonesimulator"), N("Runner.app")>>

xcodebuildArchive == "xcodebuild -configuration Release archive"

xcodebuildDebug == "xcodebuild -sdk iphonesimulator -configuration Debug"

rmDerivedData == "rm -rf ~/Library/Developer/Xcode/DerivedData"

\* what an external command leaves in the file system when it exits with
\* status 0; a failing command leaves nothing the scripts rely on
toolEffect(f, cmd, pd, tag) ==
    CASE cmd \in {"flutter build apk --release", "flutter build apk",
                  "flutter build apk --verbose"} ->
             put(f, apkReleasePath(pd), <<"apk", "release", tag>>)
      [] cmd = "flutter build appbundle --release" ->
             put(f, aabReleasePath(pd), <<"aab", "release", tag>>)
      [] cmd = "flutter build apk --debug" ->
             put(f, apkDebugPath(pd), <<"apk", "debug", tag>>)
      [] cmd \in {"flutter build ios --no-codesign", "flutter build ios --verbose"} ->
             put(f, iosAppPath(pd) \o <<N("Runner.app"), N("Runner")>>, <<"app", tag>>)
      [] cmd = xcodebuildArchive ->
             put(f, xcarchivePath(pd) \o <<N("Info.plist")>>, <<"xcarchive", tag>>)
      [] cmd = xcodebuildDebug ->
             put(f, simulatorAppPath(pd) \o <<N("Runner")>>, <<"app", "debug", tag>>)
      [] cmd = "flutter clean" -> remove(f, pd \o <<N("build")>>)
      [] cmd = rmDerivedData -> remove(f, derivedDataPath)
      [] OTHER -> f

\* the command line handed to exec(), as the list the shell runs in order
buildCommands(c) ==
    CASE c.pipeline = "android" ->
             IF c.buildMode = "Release"
             THEN <<"flutter build apk --release", "flutter build appbundle --release">>
             ELSE <<"flutter build apk --debug">>
      [] c.pipeline = "multi" ->
             (IF c.buildAndroid THEN <<"flutter build apk">> ELSE <<>>)
             \o (IF c.buildIOS THEN <<"flutter build ios --no-codesign">> ELSE <<>>)
      [] c.pipeline = "legacy" ->
             <<"flutter clean", "flutter build apk --verbose",
               "flutter build ios --verbose">>
      [] c.pipeline = "part_001" -> <<"flutter build apk">>
      [] OTHER -> <<>>

Spawn(cmd) == cmdLog' = Append(cmdLog, [cmd |-> cmd, code |-> Running])

Exited(code) ==
    [cmdLog EXCEPT ![Len(cmdLog)] = [cmd |-> cmdLog[Len(cmdLog)].cmd, code |-> code]]

runningCmd == cmdLog[Len(cmdLog)].cmd

andThenAlways(code) == TRUE

\* the shell's && : the next command runs only after exit status 0
andThen(code) == code = 0

\* the Error a 'close' handler rejects with; only the legacy script puts the
\* exit code into the message
closeError(pl, cmd, code) ==
    CASE pl = "legacy" -> [msg |-> "Build process exited with code", code |-> code]
      [] pl = "ios" /\ cmd = "pod install" ->
             [msg |-> "CocoaPods installation process exited with errors.", code |-> -1]
      [] pl = "ios" -> [msg |-> "iOS build process exited with errors.", code |-> -1]
      [] cmd = xcodebuildArchive ->
             [msg |-> "Xcode build process exited with errors.", code |-> -1]
      [] OTHER -> [msg |-> "Flutter build process exited with errors.", code |-> -1]

\* buildApp called without await: main() goes on at once
buildAppNotAwaited ==
    /\ pc = "buildApp"
    /\ cfg.pipeline \in {"android", "multi", "legacy"}
    /\ entered' = Append(entered, "BuildOrchestrator")
    /\ Spawn(Head(buildCommands(cfg)))
    /\ chain' = Tail(buildCommands(cfg))
    /\ pc' = "copyToShippableFolder"
    /\ UNCHANGED <<fs, run, cfg, pending, outcome, err, returned, keytoolCalls,
                   credPrompts, copyLog>>

\* buildApp: exec() of the pipeline's command line
buildApp ==
    /\ pc = "buildApp"
    /\ cfg.pipeline \in {"android", "multi", "legacy", "part_001"}
    /\ entered' = Append(entered, "BuildOrchestrator")
    /\ Spawn(Head(buildCommands(cfg)))
    /\ chain' = Tail(buildCommands(cfg))
    /\ pc' = "building"
    /\ UNCHANGED <<fs, run, cfg, pending, outcome, err, returned, keytoolCalls,
                   credPrompts, copyLog>>

\* a command of the shell chain exits; the shell runs the next one or ends,
\* and the 'close' handler of buildApp resolves or rejects
shellStep ==
    /\ pc = "building"
    /\ \E code \in ExitCodes :
          LET cmd == runningCmd
              f1 == IF code = 0
                    THEN toolEffect(fs, cmd, projectDir, ToString(run)) ELSE fs
          IN  /\ fs' = f1
              /\ IF andThen(code) /\ chain # <<>>
                 THEN /\ cmdLog' = Append(Exited(code),
                                          [cmd |-> Head(chain), code |-> Running])
                      /\ chain' = Tail(chain)
                      /\ UNCHANGED <<pc, outcome, err, returned>>
                 ELSE /\ chain' = <<>>
                      /\ IF code = 0
                         THEN IF cfg.pipeline = "multi" /\ cfg.buildIOS
                              THEN /\ cmdLog' = Append(Exited(code),
                                          [cmd |-> xcodebuildArchive, code |-> Running])
                                   /\ pc' = "xcodebuild"
                                   /\ UNCHANGED <<outcome, err, returned>>
                              ELSE /\ cmdLog' = Exited(code)
                                   /\ pc' = "copyToShippableFolder"
                                   /\ returned' = returned \cup {"BuildOrchestrator"}
                                   /\ UNCHANGED <<outcome, err>>
                         ELSE /\ cmdLog' = Exited(code)
                              /\ err' = closeError(cfg.pipeline, cmd, code)
                              /\ Caught("error")
                              /\ UNCHANGED returned
    /\ UNCHANGED <<run, cfg, pending, entered, keytoolCalls, credPrompts, copyLog>>

\* the 'close' handler of a single exec(): resolve on 0, reject otherwise
closeStep(at, next, stage) ==
    /\ pc = at
    /\ \E code \in ExitCodes :
          /\ fs' = IF code = 0
                   THEN toolEffect(fs, runningCmd, projectDir, ToString(run)) ELSE fs
          /\ cmdLog' = Exited(code)
          /\ IF code = 0
             THEN /\ pc' = next
                  /\ returned' = returned \cup stage
                  /\ UNCHANGED <<outcome, err>>
             ELSE /\ err' = closeError(cfg.pipeline, runningCmd, code)
                  /\ Caught("error")
                  /\ UNCHANGED returned
    /\ UNCHANGED <<run, cfg, chain, pending, entered, keytoolCalls, credPrompts,
                   copyLog>>

\* part_000 buildApp: the 'close' handler of the xcodebuild archive
xcodeClose == closeStep("xcodebuild", "copyToShippableFolder", {"BuildOrchestrator"})

\* ios.js installCocoaPods: exec('pod install')
installCocoaPods ==
    /\ pc = "installCocoaPods"
    /\ cfg.pipeline = "ios"
    /\ entered' = Append(entered, "BuildOrchestrator")
    /\ Spawn("pod install")
    /\ pc' = "pod"
    /\ UNCHANGED <<fs, run, cfg, chain, pending, outcome, err, returned,
                   keytoolCalls, credPrompts, copyLog>>

podClose == closeStep("pod", "stampVersion", {})

\* ios.js buildIOSApp: exec('rm -rf .../DerivedData', callback)
buildIOSApp ==
    /\ pc = "buildIOSApp"
    /\ cfg.pipeline = "ios"
    /\ Spawn(rmDerivedData)
    /\ pc' = "rm"
    /\ UNCHANGED <<fs, run, cfg, chain, pending, outcome, err, entered, returned,
                   keytoolCalls, credPrompts, copyLog>>

\* the callback of the rm: an error is only printed, xcodebuild is spawned
rmDone ==
    /\ pc = "rm"
    /\ \E code \in ExitCodes :
          /\ fs' = IF code = 0
                   THEN toolEffect(fs, rmDerivedData, projectDir, "") ELSE fs
          /\ cmdLog' = Append(Exited(code),
                 [cmd |-> IF cfg.buildMode = "Release" THEN xcodebuildArchive
                          ELSE xcodebuildDebug,
                  code |-> Running])
    /\ pc' = "xcodebuildIOS"
    /\ UNCHANGED <<run, cfg, chain, pending, outcome, err, entered, returned,
                   keytoolCalls, credPrompts, copyLog>>

iosClose == closeStep("xcodebuildIOS", "copyToShippableFolder", {"BuildOrchestrator"})

----------------------------------------------------------------------------
(* Artifact collection *)

shippableAppDir(c) ==
    IF c.pipeline = "ios" THEN outputDir("ios")
    ELSE outputDir(c.pipeline) \o <<convertBundleNameToFolderName(c.bundleName)>>

copyIfExists(f, from, to) ==
    IF isFile(f, from) THEN put(f, to, f[from])
    ELSE IF pathExists(f, from) THEN copyTree(f, from, to)
    ELSE f

\* copyToShippableFolder of android.js
collectAndroid(f, pd, dir, buildMode) ==
    LET f0 == ensureDir(f, dir) IN
    IF buildMode = "Release"
    THEN copyIfExists(copyIfExists(f0, apkReleasePath(pd),
                                   dir \o <<N("app-release.apk")>>),
                      aabReleasePath(pd), dir \o <<N("app-release.aab")>>)
    ELSE copyIfExists(f0, apkDebugPath(pd), dir \o <<N("app-debug.apk")>>)

\* copyToShippableFolder of ios.js
collectIOS(f, pd, dir, buildMode) ==
    LET f0 == ensureDir(f, dir) IN
    IF buildMode = "Release"
    THEN copyIfExists(f0, xcarchivePath(pd), dir \o <<N("Runner.xcarchive")>>)
    ELSE copyIfExists(f0, simulatorAppPath(pd), dir \o <<N("Runner.app")>>)

\* copyToShippableFolder of part_000: the folder is removed first
collectMulti(f, pd, dir) ==
    LET f0 == ensureDir(IF pathExists(f, dir) THEN remove(f, dir) ELSE f, dir)
    IN  copyIfExists(copyIfExists(f0, apkReleasePath(pd),
                                  dir \o <<N("app-release.apk")>>),
                     iosAppPath(pd), dir \o <<N("ios")>>)

\* copyToShippableFolder of part_001: the release apk, nothing removed
collectFirst(f, pd, dir) ==
    copyIfExists(ensureDir(f, dir), apkReleasePath(pd), dir \o <<N("app-release.apk")>>)

collect(f, c) ==
    LET pd == appDirOf(c.pipeline, c.bundleName)
        dir == shippableAppDir(c)
    IN  CASE c.pipeline = "android" -> collectAndroid(f, pd, dir, c.buildMode)
          [] c.pipeline = "part_001" -> collectFirst(f, pd, dir)
          [] c.pipeline = "ios" -> collectIOS(f, pd, dir, c.buildMode)
          [] OTHER -> collectMulti(f, pd, dir)

\* main(): copyToShippableFolder, then 'App is ready for deployment!'
copyToShippableFolder ==
    /\ pc = "copyToShippableFolder"
    /\ EnterAndReturn("ArtifactCollector")
    /\ fs' = collect(fs, cfg)
    /\ outcome' = "ready"
    /\ pc' = "done"
    /\ UNCHANGED <<run, cfg, cmdLog, chain, pending, err, keytoolCalls,
                   credPrompts, copyLog>>

----------------------------------------------------------------------------
(* The iOS pipeline (ios.js) *)

\* String.prototype.replace with a global pattern: every match, left to right
RECURSIVE replaceAll(_, _, _, _, _)
replaceAll(text, open, close, min, with) ==
    LET j == MatchStart(text, open, close, min)
    IN  IF j = 0 THEN text
        ELSE LET k == MatchEnd(text, open, close, min, j)
             IN  SubSeq(text, 1, j - 1) \o substitution(with, SubSeq(text, j, k))
                 \o replaceAll(SubSeq(text, k + 1, Len(text)), open, close, min, with)

RECURSIVE iosIconTasksFrom(_, _, _)
iosIconTasksFrom(pd, i, k) ==
    IF i > Len(iosIconSizes) THEN <<>>
    ELSE IF k > Len(iosIconSizes[i].scales) THEN iosIconTasksFrom(pd, i + 1, 1)
    ELSE LET dimension == iosIconSizes[i].size * iosIconSizes[i].scales[k]
         IN  <<[dest |-> appIconSetPath(pd) \o <<<<"Icon-", ToString(dimension), ".png">>>>,
                dim |-> dimension]>>
             \o iosIconTasksFrom(pd, i, k + 1)

iosIconTasks(pd) == iosIconTasksFrom(pd, 1, 1)

\* updateIOSAppIcons: the icon is looked up in the template folder
updateIOSAppIcons ==
    /\ pc = "updateAppIcon"
    /\ cfg.pipeline = "ios"
    /\ Enter("AssetUpdater")
    /\ IF pathExists(fs, cfg.folder \o <<N("icon.png")>>)
       THEN LET r == resizeAll(fs, iosIconTasks(projectDir))
            IN  /\ fs' = r.fs
                /\ IF r.failed = {}
                   THEN /\ returned' = returned \cup {"AssetUpdater"}
                        /\ pc' = "updateFiles"
                        /\ UNCHANGED <<outcome, err>>
                   ELSE /\ Caught("error")
                        /\ \E first \in r.failed : err' = promiseAllRejection(first)
                        /\ UNCHANGED returned
       ELSE /\ returned' = returned \cup {"AssetUpdater"}
            /\ pc' = "updateFiles"
            /\ UNCHANGED <<fs, outcome, err>>
    /\ UNCHANGED <<run, cfg, cmdLog, chain, pending, keytoolCalls,
                   credPrompts, copyLog>>

xcconfigContent(teamId) ==
    <<"CODE_SIGN_STYLE = Automatic", "\n", "DEVELOPMENT_TEAM = ", teamId, "\n",
      "CODE_SIGN_IDENTITY = iPhone Developer">>

\* updateIOSFilesAndSetupSigning of ios.js
updateIOSFilesAndSetupSigning(f, bundleName, appName, pd, deploymentTarget) ==
    LET ip == infoPlistPath(pd) IN
    IF ~isFile(f, ip) THEN [threw |-> TRUE, fs |-> f]
    ELSE
    LET i1 == replaceFirst(f[ip], "<key>CFBundleIdentifier</key><string>", "</string>", 1,
                  <<"<key>CFBundleIdentifier</key><string>">> \o bundleName
                  \o <<"</string>">>)
        i2 == replaceFirst(i1, "<key>CFBundleName</key><string>", "</string>", 1,
                  <<"<key>CFBundleName</key><string>">> \o appName \o <<"</string>">>)
        f1 == writeFile(f, ip, i2)
        f2 == writeFile(f1, xcconfigPath(pd), xcconfigContent("ZBWAG62J88"))
        f3 == IF isFile(f2, podfilePath(pd))
              THEN writeFile(f2, podfilePath(pd),
                       replaceFirst(f2[podfilePath(pd)], "platform :ios, '", "'", 0,
                                    <<"platform :ios, '", deploymentTarget, "'">>))
              ELSE f2
        f4 == IF isFile(f3, xcodeprojPath(pd))
              THEN writeFile(f3, xcodeprojPath(pd),
                       replaceAll(
                           replaceAll(f3[xcodeprojPath(pd)], "DEVELOPMENT_TEAM = ", ";", 1,
                                      <<"DEVELOPMENT_TEAM = ", "ZBWAG62J88", ";">>),
                           "CODE_SIGN_STYLE = ", ";", 1,
                           <<"CODE_SIGN_STYLE = ", "Automatic", ";">>))
              ELSE f3
    IN  [threw |-> FALSE, fs |-> f4]

updateFilesIOS ==
    /\ pc = "updateFiles"
    /\ cfg.pipeline = "ios"
    /\ SyncStep(updateIOSFilesAndSetupSigning(fs, cfg.bundleName, cfg.appName,
                                              projectDir, "12.0"),
                "IdentityRewriter", "updateConfigFiles")

updateConfigIOS ==
    /\ pc = "updateConfigFiles"
    /\ cfg.pipeline = "ios"
    /\ SyncStep(updateConfigFiles(fs, "2", "https://api", "", projectDir),
                "ConfigPropagation", "installCocoaPods")

\* main() of ios.js, Release only: version: <name>, without a build number
stampVersionIOS(f, versionName, pd) ==
    IF ~isFile(f, pubspecPath(pd)) THEN [threw |-> TRUE, fs |-> f]
    ELSE [threw |-> FALSE,
          fs |-> writeFile(f, pubspecPath(pd),
                     replaceVersion(f[pubspecPath(pd)], <<"version: ", versionName>>))]

stampVersionIos ==
    /\ pc = "stampVersion"
    /\ cfg.pipeline = "ios"
    /\ IF cfg.buildMode = "Release"
       THEN SyncStep(stampVersionIOS(fs, "2.0.0", projectDir),
                     "VersionStamp", "buildIOSApp")
       ELSE /\ pc' = "buildIOSApp"
            /\ UNCHANGED <<fs, run, cfg, cmdLog, chain, pending, outcome, err,
                           entered, returned, keytoolCalls, credPrompts, copyLog>>

----------------------------------------------------------------------------
(* The multi-platform scripts (part_000) *)

\* copyProject of part_000 lines 98-115 and of part_001: refuses by string
\* prefix, then copies over whatever the destination holds
copyProjectChecked ==
    /\ pc = "copyProject"
    /\ cfg.pipeline \in {"multi", "part_001"}
    /\ entered' = Append(entered, "Materializer")
    /\ LET resolvedSrc == resolve(cfg.folder)
           resolvedDest == resolve(projectDir)
       IN  IF startsWith(resolvedDest, resolvedSrc)
              \/ copyRefused(fs, cfg.folder, projectDir)
           THEN /\ Crash
                /\ UNCHANGED <<fs, returned>>
           ELSE /\ fs' = copyTree(fs, cfg.folder, projectDir)
                /\ returned' = returned \cup {"Materializer"}
                /\ pc' = IF cfg.buildIOS THEN "confirmXcodeChanges" ELSE "updateFiles"
                /\ UNCHANGED <<outcome, pending>>
    /\ UNCHANGED <<run, cfg, cmdLog, chain, err, keytoolCalls, credPrompts, copyLog>>

\* copyProject of part_000 lines 406-414: fs.copySync and nothing else
copyProjectLegacy ==
    /\ pc = "copyProject"
    /\ cfg.pipeline = "legacy"
    /\ entered' = Append(entered, "Materializer")
    /\ IF copyRefused(fs, cfg.folder, projectDir)
       THEN /\ Crash
            /\ UNCHANGED <<fs, returned>>
       ELSE /\ fs' = copyTree(fs, cfg.folder, projectDir)
            /\ returned' = returned \cup {"Materializer"}
            /\ pc' = "updateFiles"
            /\ UNCHANGED <<outcome, pending>>
    /\ UNCHANGED <<run, cfg, cmdLog, chain, err, keytoolCalls, credPrompts, copyLog>>

\* confirmXcodeChanges: asked again and again until the user confirms; after
\* a refusal main() waits in a recursive call of confirmXcodeChanges, whose
\* depth is not recorded
confirmXcodeChanges ==
    /\ pc \in {"confirmXcodeChanges", "confirmXcodeChangesAgain"}
    /\ \E xcodeChangesApplied \in BOOLEAN :
          pc' = IF xcodeChangesApplied THEN "updateFiles" ELSE "confirmXcodeChangesAgain"
    /\ UNCHANGED <<fs, run, cfg, cmdLog, chain, pending, outcome, err, entered,
                   returned, keytoolCalls, credPrompts, copyLog>>

\* /(buildSettings = \{[^}]*)(\};)/g with the replacer of part_000: a block
\* without a baseConfigurationReference gets one appended
RECURSIVE addBaseConfiguration(_, _)
addBaseConfiguration(text, ref) ==
    LET j == MatchStart(text, "buildSettings = {", "};", 0)
    IN  IF j = 0 THEN text
        ELSE LET k == MatchEnd(text, "buildSettings = {", "};", 0, j)
                 p1 == SubSeq(text, j, k - 1)
                 has == \E i \in 1..Len(p1) : p1[i] = "baseConfigurationReference = \""
             IN  SubSeq(text, 1, j - 1)
                 \o (IF has THEN p1 ELSE p1 \o <<"baseConfigurationReference = \"">>
                                         \o ref \o <<"\";">>)
                 \o <<"};">>
                 \o addBaseConfiguration(SubSeq(text, k + 1, Len(text)), ref)

\* updateIOSFilesAndSetupSigning of part_000
updateIOSFilesMulti(f, appName, pd, teamId) ==
    LET ip == infoPlistPath(pd) IN
    IF ~isFile(f, ip) THEN [threw |-> TRUE, fs |-> f]
    ELSE
    LET i1 == replaceFirst(f[ip], "<key>CFBundleName</key><string>", "</string>", 1,
                  <<"<key>CFBundleName</key><string>">> \o appName \o <<"</string>">>)
        f1 == writeFile(f, ip, i1)
        f2 == writeFile(f1, xcconfigPath(pd), xcconfigContent(teamId))
    IN  IF ~isFile(f2, xcodeprojPath(pd)) THEN [threw |-> TRUE, fs |-> f2]
        ELSE [threw |-> FALSE,
              fs |-> writeFile(f2, xcodeprojPath(pd),
                         addBaseConfiguration(f2[xcodeprojPath(pd)],
                                              resolve(xcconfigPath(pd))))]

\* updateConfigFiles of part_000: string-typed constants; the older script
\* also writes .env and tolerates a missing config.dart
updateConfigFilesMulti(f, offlineCategoryId, apiUrl, pd, legacy) ==
    LET cp == configFilePath(pd)
        f0 == IF legacy
              THEN writeFile(f, pd \o <<N(".env")>>,
                       <<"OFFLINE_CATEGORY_ID=", offlineCategoryId, "\n",
                         "API_URL=", apiUrl, "\n">>)
              ELSE f
    IN
    IF ~isFile(f0, cp) THEN [threw |-> ~legacy, fs |-> f0]
    ELSE
    LET c1 == replaceFirst(f0[cp], "const String OFFLINE_CATEGORY_ID = '", "';", 0,
                  <<"const String OFFLINE_CATEGORY_ID = '", offlineCategoryId, "';">>)
        c2 == replaceFirst(c1, "const String API_URL = '", "';", 0,
                  <<"const String API_URL = '", apiUrl, "';">>)
    IN  [threw |-> FALSE, fs |-> writeFile(f0, cp, c2)]

\* main() of part_000 and part_001, step 2, the Android part (only part_001
\* rewrites android:label)
rewriteMultiAndroid(f, c, pd) ==
    IF c.buildAndroid
    THEN updateAndroidFiles(f, c.bundleName,
                            IF c.pipeline = "part_001" THEN c.appName ELSE <<>>, pd)
    ELSE [threw |-> FALSE, fs |-> f]

\* main() of part_000, step 2, the iOS part
rewriteMultiIOS(a, c, pd) ==
    IF a.threw \/ ~c.buildIOS THEN a
    ELSE updateIOSFilesMulti(a.fs, c.appName, pd, "ZBWAG62J88")

\* the stages a rewriter outcome u stands for, after the identity outcome i
rewriteOutcome(i, u) ==
    IF i.threw
    THEN [threw |-> TRUE, fs |-> i.fs, stages |-> <<"IdentityRewriter">>,
          done |-> {}]
    ELSE [threw |-> u.threw, fs |-> u.fs,
          stages |-> <<"IdentityRewriter", "ConfigPropagation">>,
          done |-> IF u.threw THEN {"IdentityRewriter"}
                   ELSE {"IdentityRewriter", "ConfigPropagation"}]

\* the atoms that hold a quote character
QuoteAtoms ==
    {"const String OFFLINE_CATEGORY_ID = '", "const String API_URL = '",
     "const String ANDROID_PRODUCT_ID = '", "';"}

\* index of the closing ';' of /open[^']*;/ matched at j, or 0: greedy, up
\* to the last ';' before the first quote character
greedyEnd(text, open, j) ==
    IF text[j] # open THEN 0
    ELSE LET qs == { k \in (j + 1)..Len(text) : text[k] \in QuoteAtoms }
             stop == IF qs = {} THEN Len(text) + 1
                     ELSE CHOOSE x \in qs : \A y \in qs : x <= y
             semis == { k \in (j + 1)..(stop - 1) : text[k] = ";" }
         IN  IF semis = {} THEN 0 ELSE CHOOSE x \in semis : \A y \in semis : x >= y

\* String.prototype.replace with /open[^']*;/ : the first match only
replaceGreedy(text, open, with) ==
    LET js == { j \in 1..Len(text) : greedyEnd(text, open, j) # 0 }
    IN  IF js = {} THEN text
        ELSE LET j == CHOOSE x \in js : \A y \in js : x <= y
             IN  SubSeq(text, 1, j - 1)
                 \o substitution(with, SubSeq(text, j, greedyEnd(text, open, j)))
                 \o SubSeq(text, greedyEnd(text, open, j) + 1, Len(text))

\* updateConfigFiles of part_001
updateConfigFilesFirst(f, offlineCategoryId, apiUrl, pd) ==
    LET cp == configFilePath(pd) IN
    IF ~isFile(f, cp) THEN [threw |-> TRUE, fs |-> f]
    ELSE [threw |-> FALSE,
          fs |-> writeFile(f, cp,
                    replaceFirst(
                        replaceGreedy(f[cp], "const int OFFLINE_CATEGORY_ID = ",
                            <<"const int OFFLINE_CATEGORY_ID = ", offlineCategoryId, ";">>),
                        "const String API_URL = '", "';", 0,
                        <<"const String API_URL = '", apiUrl, "';">>))]

\* main() of part_000 and part_001, step 2, the configuration after the
\* identity outcome
rewriteMultiConfig(i, c, pd) ==
    rewriteOutcome(i,
        IF c.pipeline = "part_001"
        THEN updateConfigFilesFirst(i.fs, "2", "https://api", pd)
        ELSE updateConfigFilesMulti(i.fs, "2", "https://api", pd,
                                    c.pipeline = "legacy"))

\* main() of part_000 between copyProject and the try block: the rewriters,
\* run back to back; an exception here is caught by nobody
rewriteMulti(f, c) ==
    rewriteMultiConfig(
        rewriteMultiIOS(
            rewriteMultiAndroid(f, c, appDirOf(c.pipeline, c.bundleName)),
            c, appDirOf(c.pipeline, c.bundleName)),
        c, appDirOf(c.pipeline, c.bundleName))

\* main() of part_000 after the rewriters: into the try block, or out with
\* the uncaught exception
afterRewrite(r) ==
    /\ fs' = r.fs
    /\ entered' = entered \o r.stages
    /\ returned' = returned \cup r.done
    /\ IF r.threw
       THEN Crash
       ELSE /\ UNCHANGED pending
            /\ IF cfg.buildAndroid \/ cfg.buildIOS
               THEN /\ pc' = "buildApp"
                    /\ UNCHANGED outcome
               ELSE /\ pc' = "done"
                    /\ outcome' = "nothing selected"

updateFilesMulti ==
    /\ pc = "updateFiles"
    /\ cfg.pipeline \in {"multi", "legacy", "part_001"}
    /\ afterRewrite(rewriteMulti(fs, cfg))
    /\ UNCHANGED <<run, cfg, cmdLog, chain, err, keytoolCalls, credPrompts, copyLog>>

----------------------------------------------------------------------------
(* The specification *)

Next ==
    \/ StartRun
    \/ copyProject
    \/ copyProjectChecked
    \/ copyProjectLegacy
    \/ confirmXcodeChanges
    \/ updateAppIcon
    \/ updateIOSAppIcons
    \/ updateFilesAndroid
    \/ updateFilesIOS
    \/ updateFilesMulti
    \/ updateConfigAndroid
    \/ updateConfigIOS
    \/ stampVersionAndroid
    \/ stampVersionIos
    \/ keytoolGate
    \/ generateKeystore
    \/ keytoolExit
    \/ copyFileDone
    \/ buildApp
    \/ shellStep
    \/ xcodeClose
    \/ installCocoaPods
    \/ podClose
    \/ buildIOSApp
    \/ rmDone
    \/ iosClose
    \/ copyToShippableFolder
    \/ processExit

Spec == Init /\ [][Next]_vars

----------------------------------------------------------------------------
(* One invocation of each script on each template *)

\* promptUser() has returned: the template is the sibling folder, the
\* destination does not exist yet
InitTemplates ==
    /\ \E v \in TemplateVariants, cache \in {"none", "both"}, icon \in BOOLEAN,
          pl \in Pipelines \cup {"part_001"}, n \in AppNames :
          /\ (v = TemplateFiles \/ cache = "both")
          /\ (icon => (v = TemplateFiles /\ cache = "both"))
          /\ (n # AppName => (v = TemplateFiles /\ cache = "both" /\ ~icon))
          /\ fs = v @@ (IF icon THEN TemplateIconsSparse ELSE TemplateIcons)
                   @@ TemplateIOS @@ HostFiles(icon, cache)
          /\ \E a \in Answers(pl) :
                 a.folder = TemplateDir /\ cfg = [a EXCEPT !.appName = n]
    /\ run = 1
    /\ pc = "copyProject"
    /\ cmdLog = <<>>
    /\ chain = <<>>
    /\ pending = {}
    /\ outcome = "none"
    /\ err = NoError
    /\ entered = <<>>
    /\ returned = {}
    /\ keytoolCalls = 0
    /\ credPrompts = 0
    /\ copyLog = {}

NextTemplates ==
    \/ copyProject
    \/ copyProjectChecked
    \/ copyProjectLegacy
    \/ confirmXcodeChanges
    \/ updateAppIcon
    \/ updateIOSAppIcons
    \/ updateFilesAndroid
    \/ updateFilesIOS
    \/ updateFilesMulti
    \/ updateConfigAndroid
    \/ updateConfigIOS
    \/ stampVersionAndroid
    \/ stampVersionIos
    \/ keytoolGate
    \/ generateKeystore
    \/ keytoolExit
    \/ copyFileDone
    \/ buildApp
    \/ shellStep
    \/ xcodeClose
    \/ installCocoaPods
    \/ podClose
    \/ buildIOSApp
    \/ rmDone
    \/ iosClose
    \/ copyToShippableFolder
    \/ processExit

SpecTemplates == InitTemplates /\ [][NextTemplates]_vars

----------------------------------------------------------------------------
(* copyProject on every bundle identifier promptUser() accepts *)

\* the characters of the identifiers, one atom each
IdChars == {"a", "7"}

\* /^[a-zA-Z0-9]+(\.[a-zA-Z0-9]+)+$/
bundleIdPattern(input) ==
    /\ Len(input) >= 3
    /\ input[1] # "."
    /\ input[Len(input)] # "."
    /\ \E i \in 1..Len(input) : input[i] = "."
    /\ \A i \in 1..(Len(input) - 1) : ~(input[i] = "." /\ input[i + 1] = ".")

ValidBundleIds ==
    UNION { { input \in [1..n -> IdChars \cup {"."}] : bundleIdPattern(input) } :
              n \in 3..MaxIdLen }

\* promptUser() has returned with a bundle identifier that passed validate
InitIdentifiers ==
    /\ fs = TemplateFiles @@ TemplateIcons @@ TemplateIOS @@ HostFiles(FALSE, "none")
    /\ run = 1
    /\ pc = "copyProject"
    /\ \E pl \in Pipelines \cup {"part_001"}, b \in ValidBundleIds :
          cfg = [pipeline |-> pl,
                 buildMode |-> IF pl \in {"android", "ios"} THEN "Release" ELSE "n/a",
                 folder |-> TemplateDir, bundleName |-> b, appName |-> AppName,
                 buildAndroid |-> pl # "ios", buildIOS |-> pl = "ios",
                 keytool |-> TRUE]
    /\ cmdLog = <<>>
    /\ chain = <<>>
    /\ pending = {}
    /\ outcome = "none"
    /\ err = NoError
    /\ entered = <<>>
    /\ returned = {}
    /\ keytoolCalls = 0
    /\ credPrompts = 0
    /\ copyLog = {}

NextIdentifiers ==
    \/ copyProject
    \/ copyProjectChecked
    \/ copyProjectLegacy

SpecIdentifiers == InitIdentifiers /\ [][NextIdentifiers]_vars

----------------------------------------------------------------------------
(* Properties *)

Range(q) == { q[i] : i \in 1..Len(q) }

Release == cfg.pipeline = "android" /\ cfg.buildMode = "Release"

\* the build orchestrator has rejected in this invocation
BuildFailed == err # NoError

\* the command whose exit made the orchestrator reject: the last one spawned
failedCmd == cmdLog[Len(cmdLog)]

\* C1: a build command is spawned only after every build command spawned
\* before it in the same invocation has exited with status 0.  The removal
\* of DerivedData is no build command: its status is printed and ignored.
C1_LaterOnlyAfterZero ==
    \A j \in 1..Len(cmdLog) : \A i \in 1..(j - 1) :
        cmdLog[i].cmd # rmDerivedData => cmdLog[i].code = 0

\* command 2 of the three of the multi-platform script failed; the archive
\* was never spawned
C1_Witness ==
    /\ cfg.pipeline = "multi" /\ cfg.buildAndroid /\ cfg.buildIOS
    /\ pc = "done"
    /\ Len(cmdLog) = 2
    /\ cmdLog[1].code = 0
    /\ cmdLog[2].code > 0

\* C2: when a build command exits non-zero, the value the orchestrator
\* rejects with carries exactly that command's exit code
C2_RejectionCarriesExitCode ==
    BuildFailed => err.code = failedCmd.code

\* the output folder of the invocation, with everything in it
outputFolder(f) == [q \in Under(f, shippableAppDir(cfg)) |-> f[q]]

\* C3: once the build has failed, the collector is never invoked, the run
\* never reports ready, and nothing in the output folder changes
C3_FailureLeavesOutputAlone ==
    /\ [](BuildFailed =>
            "ArtifactCollector" \notin Range(entered) /\ outcome # "ready")
    /\ [][(BuildFailed /\ run' = run) => outputFolder(fs') = outputFolder(fs)]_vars

\* C4: Release without keytool: generateKeystore is never entered, no build
\* command is spawned, the collector never runs
C4_NoKeytoolAborts ==
    (Release /\ ~cfg.keytool) =>
        /\ "CredentialStore" \notin Range(entered)
        /\ cmdLog = <<>>
        /\ "ArtifactCollector" \notin Range(entered)
        /\ pc \notin {"generateKeystore", "keytool", "buildApp", "building",
                      "copyToShippableFolder"}

C4_Witness == Release /\ ~cfg.keytool /\ outcome = "exit1"

\* C5: while a cached keystore exists no step invokes keytool, asks a
\* credential prompt or changes the cached keystore, over all runs
C5_CachedKeystoreReused ==
    [][pathExists(fs, defaultKeystorePath) =>
          /\ keytoolCalls' = keytoolCalls
          /\ credPrompts' = credPrompts
          /\ isFile(fs', defaultKeystorePath)
          /\ fs'[defaultKeystorePath] = fs[defaultKeystorePath]]_vars

\* this invocation took the cache branch of generateKeystore
TookCache ==
    CopyOp(defaultKeyPropertiesPath, keyPropertiesPath(projectDir))
        \in pending \cup { l.op : l \in copyLog }

\* the second run reuses the keystore the first run generated
C5_Witness ==
    /\ run = 2 /\ Release /\ TookCache
    /\ keytoolCalls = 1 /\ credPrompts = 1
    /\ fs[defaultKeystorePath] = <<"jks", "1">>

Generated == "keytool -genkeypair" \in returned

\* C6: after a successful key generation the keystore and the secrets file
\* both exist at the cache location
C6_GenerationFillsCache ==
    Generated =>
        /\ isFile(fs, defaultKeystorePath)
        /\ isFile(fs, defaultKeyPropertiesPath)

\* C7: the run after a generating run takes the cache branch and ends the
\* Credential Store stage with keystore and secrets file in its working
\* copy, each identical to the cached file
C7_SecondRunCopiesCache ==
    (run = 2 /\ Release /\ keytoolCalls = 1 /\ TookCache
       /\ "CredentialStore" \in returned) =>
        /\ isFile(fs, keystorePath(projectDir))
        /\ fs[keystorePath(projectDir)] = fs[defaultKeystorePath]
        /\ isFile(fs, keyPropertiesPath(projectDir))
        /\ isFile(fs, defaultKeyPropertiesPath)
        /\ fs[keyPropertiesPath(projectDir)] = fs[defaultKeyPropertiesPath]

\* C8: in Release mode a build command is spawned only when the copies of
\* keystore and secrets file have completed, and completed without error
C8_CopiesDoneBeforeBuild ==
    [][(Release /\ Len(cmdLog') > Len(cmdLog)) =>
          /\ pending = {}
          /\ \A l \in copyLog : l.ok
          /\ isFile(fs, keystorePath(projectDir))
          /\ isFile(fs, keyPropertiesPath(projectDir))]_vars

\* the place of each stage in the order the specification gives
specRank(stage) ==
    CASE stage = "Materializer" -> 1
      [] stage \in {"IdentityRewriter", "ConfigPropagation", "VersionStamp"} -> 2
      [] stage = "AssetUpdater" -> 3
      [] stage = "CredentialStore" -> 4
      [] stage = "BuildOrchestrator" -> 5
      [] stage = "ArtifactCollector" -> 6

\* the place of each stage in the order main() calls them
codeRank(stage) ==
    CASE stage = "Materializer" -> 1
      [] stage = "AssetUpdater" -> 2
      [] stage \in {"IdentityRewriter", "ConfigPropagation"} -> 3
      [] stage = "CredentialStore" -> 4
      [] stage = "BuildOrchestrator" -> 5
      [] stage = "ArtifactCollector" -> 6

\* C9 as the specification states it: Materializer, Identity Rewriter, Asset Updater, Credential
\* Store, Build Orchestrator, Artifact Collector, each after the one before
\* has finished
C9_SpecOrder ==
    \A j \in 1..Len(entered) : \A i \in 1..(j - 1) :
        /\ specRank(entered[i]) <= specRank(entered[j])
        /\ entered[i] \in returned

\* the stages other than version stamping, in the order entered
RECURSIVE mainStages(_)
mainStages(q) ==
    IF q = <<>> THEN <<>>
    ELSE (IF Head(q) = "VersionStamp" THEN <<>> ELSE <<Head(q)>>) \o mainStages(Tail(q))

\* C9 as amended: Materializer, Asset Updater, Identity Rewriter, Credential
\* Store, Build Orchestrator, Artifact Collector, each entered after the call
\* of the one before has returned to main()
C9_CodeOrder ==
    LET st == mainStages(entered) IN
    \A j \in 1..Len(st) : \A i \in 1..(j - 1) :
        /\ codeRank(st[i]) <= codeRank(st[j])
        /\ st[i] \in returned

\* a Release run with a custom icon went through all six stages
C9_Witness ==
    /\ Release /\ outcome = "ready"
    /\ pathExists(fs, iconPath)
    /\ mainStages(entered) =
         <<"Materializer", "AssetUpdater", "IdentityRewriter", "ConfigPropagation",
           "CredentialStore", "BuildOrchestrator", "ArtifactCollector">>

\* C10: copyProject with a destination that is the source or lies inside it
\* fails and leaves every file as it was
C10_SelfNestingFailsCleanly ==
    [][(pc = "copyProject" /\ pc' # "copyProject"
          /\ IsSameOrDescendant(projectDir, cfg.folder)) =>
          /\ fs' = fs
          /\ "Materializer" \notin returned']_vars

\* C11: when the user declines the overwrite confirmation the run is
\* cancelled, the step changes no file, and no later stage runs or changes
\* a file in that run
C11_DeclineCancelsCleanly ==
    /\ [](outcome = "cancelled" =>
            /\ entered = <<"Materializer">>
            /\ returned = {}
            /\ cmdLog = <<>>
            /\ pending = {}
            /\ copyLog = {})
    /\ [][outcome' = "cancelled" => fs' = fs]_vars

\* a run was cancelled and the destination it found is still there
C11_Witness == outcome = "cancelled" /\ pathExists(fs, projectDir) /\ pc = "idle"

\* the files (no directories) under a path
filesUnder(f, p) == { q \in Under(f, p) : f[q] # DirMark }

\* the tree under dst holds the files of the tree under src in g, and no more
sameTree(f, dst, g, src) ==
    /\ filesUnder(f, dst) = { Rebase(q, src, dst) : q \in filesUnder(g, src) }
    /\ \A q \in filesUnder(g, src) : f[Rebase(q, src, dst)] = g[q]

\* C12: when copyProject succeeds on a destination that existed, the working
\* copy holds exactly the files of the source template
C12_CleanReplacement ==
    [][("Materializer" \in returned' /\ "Materializer" \notin returned
          /\ pathExists(fs, projectDir)) =>
          sameTree(fs', projectDir, fs, cfg.folder)]_vars

\* the source template directory, with everything in it
templateTree(f) == [q \in Under(f, cfg.folder) |-> f[q]]

\* C13: no step of a run changes anything inside the source template
\* directory
C13_TemplateUntouched ==
    [][run' = run => templateTree(fs') = templateTree(fs)]_vars

\* the signing cache beside the script
cachePaths == {defaultKeystorePath, defaultKeyPropertiesPath}

\* the files outside the working copy, the signing cache left out
outsideFiles(f) ==
    [q \in { x \in DOMAIN f : f[x] # DirMark /\ ~IsPrefix(projectDir, x)
                               /\ x \notin cachePaths } |-> f[q]]

\* C14: no step of a run changes a file outside the working copy, the
\* signing cache excepted
C14_NothingOutsideWorkingCopy ==
    [][run' = run => outsideFiles(fs') = outsideFiles(fs)]_vars

\* the text holds the identifier somewhere
containsIdent(text, ident) ==
    \E i \in 1..Len(text) :
        /\ i + Len(ident) - 1 <= Len(text)
        /\ SubSeq(text, i, i + Len(ident) - 1) = ident

\* the text opens with a package declaration of exactly this identifier
declaresPackage(text, ident) ==
    /\ Len(text) >= Len(ident) + 1
    /\ SubSeq(text, 1, Len(ident) + 1) = <<"package ">> \o ident
    /\ (Len(text) > Len(ident) + 1 => text[Len(ident) + 2] \in {";", "\n"})

\* where the entry file was before the rewriting and where it goes
oldPackagePath == kotlinPath(projectDir) \o split(OldPackage, ".")

newPackagePath == kotlinPath(projectDir) \o split(cfg.bundleName, ".")

entryFiles == {N("MainActivity.kt"), N("MainActivity.java")}

\* the step in which updateAndroidFiles runs to its end
androidRewritten ==
    /\ cfg.buildAndroid
    /\ cfg.bundleName # OldPackage
    /\ "IdentityRewriter" \notin returned
    /\ "IdentityRewriter" \in returned'

\* C15: when updateAndroidFiles succeeds with a new package identifier, the
\* relocated entry file declares the new package and no longer mentions the
\* old one, be it MainActivity.kt or MainActivity.java
C15_EntryFileDeclaresNew ==
    [][androidRewritten =>
         \A n \in entryFiles :
             isFile(fs', newPackagePath \o <<n>>) =>
                 /\ declaresPackage(fs'[newPackagePath \o <<n>>], cfg.bundleName)
                 /\ ~containsIdent(fs'[newPackagePath \o <<n>>], OldPackage)]_vars

\* C16: when updateAndroidFiles succeeds, AndroidManifest.xml and
\* build.gradle both hold the new package identifier and neither holds the
\* old one anywhere
C16_ManifestAndGradleRewritten ==
    [][androidRewritten =>
         \A p \in {androidManifestPath(projectDir), buildGradlePath(projectDir)} :
             /\ isFile(fs', p)
             /\ containsIdent(fs'[p], cfg.bundleName)
             /\ ~containsIdent(fs'[p], OldPackage)]_vars

\* the manifest of the working copy carries no package attribute
manifestLacksPackage ==
    /\ cfg.buildAndroid
    /\ isFile(fs, androidManifestPath(projectDir))
    /\ MatchStart(fs[androidManifestPath(projectDir)], "package=\"", "\"", 1) = 0

C18_KotlinPreferred ==
    [][(pc = "updateFiles" /\ pc' # pc /\ cfg.buildAndroid
          /\ cfg.bundleName # OldPackage /\ ~manifestLacksPackage) =>
         /\ (\A n \in entryFiles : isFile(fs, oldPackagePath \o <<n>>)) =>
               /\ isFile(fs', newPackagePath \o <<N("MainActivity.kt")>>)
               /\ ~pathExists(fs', oldPackagePath \o <<N("MainActivity.kt")>>)
               /\ isFile(fs', oldPackagePath \o <<N("MainActivity.java")>>)
               /\ fs'[oldPackagePath \o <<N("MainActivity.java")>>]
                      = fs[oldPackagePath \o <<N("MainActivity.java")>>]
               /\ ~pathExists(fs', newPackagePath \o <<N("MainActivity.java")>>)
               /\ "IdentityRewriter" \in returned'
         /\ (\A n \in entryFiles : ~pathExists(fs, oldPackagePath \o <<n>>)) =>
               /\ "IdentityRewriter" \notin returned'
               /\ outcome' \in {"error", "crashed"}
               /\ \A n \in entryFiles : ~pathExists(fs', newPackagePath \o <<n>>)]_vars

\* the Kotlin file has been relocated and the Java file is where it was
C18_Witness ==
    /\ "IdentityRewriter" \in returned
    /\ cfg.buildAndroid
    /\ isFile(fs, newPackagePath \o <<N("MainActivity.kt")>>)
    /\ isFile(fs, oldPackagePath \o <<N("MainActivity.java")>>)

\* the step in which the version is stamped into pubspec.yaml
versionStamped ==
    /\ cfg.buildMode = "Release"
    /\ "VersionStamp" \notin returned
    /\ "VersionStamp" \in returned'

\* C19: after version stamping the version line of pubspec.yaml carries the
\* supplied version name, and on Android the version code with it, whether
\* the template line was version: <name>+<code> or version: <name>
C19_VersionLineStamped ==
    [][versionStamped =>
         /\ isFile(fs', pubspecPath(projectDir))
         /\ containsIdent(fs'[pubspecPath(projectDir)],
                IF cfg.pipeline = "android"
                THEN <<"version: ", "2.0.0", "+", "7">>
                ELSE <<"version: ", "2.0.0">>)]_vars

\* the atoms that open a declaration updateConfigFiles is after
targetedDeclarations ==
    {"const int OFFLINE_CATEGORY_ID = ", "const String OFFLINE_CATEGORY_ID = '",
     "const String API_URL = '", "const String ANDROID_PRODUCT_ID = '"}

\* text b differs from text a in the values of targeted declarations only
onlyValuesChanged(a, b) ==
    /\ Len(b) = Len(a)
    /\ \A i \in 1..Len(a) :
           b[i] # a[i] => /\ i > 1
                          /\ a[i - 1] \in targetedDeclarations
                          /\ b[i - 1] = a[i - 1]

\* the step in which updateConfigFiles runs on a config.dart that is there
configRewritten ==
    /\ "ConfigPropagation" \notin Range(entered)
    /\ "ConfigPropagation" \in Range(entered')
    /\ isFile(fs, configFilePath(projectDir))

\* C20: updateConfigFiles, in every script, raises no error on a
\* config.dart that lacks a targeted declaration, and changes nothing in the
\* file but the values of the targeted declarations
C20_OnlyTargetedValuesChange ==
    [][configRewritten =>
         /\ "ConfigPropagation" \in returned'
         /\ isFile(fs', configFilePath(projectDir))
         /\ onlyValuesChanged(fs[configFilePath(projectDir)],
                              fs'[configFilePath(projectDir)])]_vars

\* the resize tasks of the running script
iconTasks ==
    IF cfg.pipeline = "ios" THEN iosIconTasks(projectDir)
    ELSE androidIconTasks(projectDir)

\* the step in which the icon tasks are run and more than one of them fails
severalResizesFail ==
    /\ pc = "updateAppIcon"
    /\ pc' # pc
    /\ Cardinality(resizeAll(fs, iconTasks).failed) > 1

\* C21: when several resize tasks fail, the Asset Updater hands every one
\* of the failures to its caller
C21_EveryResizeFailureReported ==
    [][severalResizesFail =>
         /\ outcome' = "error"
         /\ err' # NoError
         /\ err'.tasks = resizeAll(fs, iconTasks).failed]_vars

\* the custom icon the running script looks for is there
customIconFound ==
    pathExists(fs, IF cfg.pipeline = "ios" THEN cfg.folder \o <<N("icon.png")>>
                   ELSE iconPath)

\* C22: within one run of the Asset Updater the output paths of the resize
\* tasks are pairwise distinct, so no two tasks write the same file
C22_DistinctOutputPaths ==
    [][(pc = "updateAppIcon" /\ pc' # pc /\ customIconFound) =>
         \A i, j \in DOMAIN iconTasks :
             i # j => iconTasks[i].dest # iconTasks[j].dest]_vars

\* the fixed names under which the running script collects artifacts
artifactNames ==
    CASE cfg.pipeline = "android" ->
             {N("app-release.apk"), N("app-release.aab"), N("app-debug.apk")}
      [] cfg.pipeline = "ios" -> {N("Runner.xcarchive"), N("Runner.app")}
      [] cfg.pipeline = "part_001" -> {N("app-release.apk")}
      [] OTHER -> {N("app-release.apk"), N("ios")}

\* the files of the artifacts the output folder holds
collectedArtifacts(f) ==
    { q \in filesUnder(f, shippableAppDir(cfg)) :
        /\ Len(q) > Len(shippableAppDir(cfg))
        /\ q[Len(shippableAppDir(cfg)) + 1] \in artifactNames }

\* the step in which copyToShippableFolder runs, the project having been
\* copied from the template and not from an earlier working copy
collecting ==
    /\ pc = "copyToShippableFolder"
    /\ pc' = "done"
    /\ cfg.folder = TemplateDir

\* C23: after a collection the output folder holds no artifact of an earlier
\* collection: every artifact in it was built and copied in the present run
C23_NoStaleArtifacts ==
    [][collecting =>
         \A q \in collectedArtifacts(fs') :
             fs'[q][Len(fs'[q])] = ToString(run)]_vars

\* where the running script looks for each artifact and the fixed name it
\* gives it in the output folder
artifactTable ==
    LET pd == projectDir
        dir == shippableAppDir(cfg)
    IN  CASE cfg.pipeline = "android" /\ cfg.buildMode = "Release" ->
                 { [from |-> apkReleasePath(pd), to |-> dir \o <<N("app-release.apk")>>],
                   [from |-> aabReleasePath(pd), to |-> dir \o <<N("app-release.aab")>>] }
          [] cfg.pipeline = "android" ->
                 { [from |-> apkDebugPath(pd), to |-> dir \o <<N("app-debug.apk")>>] }
          [] cfg.pipeline = "ios" /\ cfg.buildMode = "Release" ->
                 { [from |-> xcarchivePath(pd), to |-> dir \o <<N("Runner.xcarchive")>>] }
          [] cfg.pipeline = "ios" ->
                 { [from |-> simulatorAppPath(pd), to |-> dir \o <<N("Runner.app")>>] }
          [] cfg.pipeline = "part_001" ->
                 { [from |-> apkReleasePath(pd), to |-> dir \o <<N("app-release.apk")>>] }
          [] OTHER ->
                 { [from |-> apkReleasePath(pd), to |-> dir \o <<N("app-release.apk")>>],
                   [from |-> iosAppPath(pd), to |-> dir \o <<N("ios")>>] }

\* C24: an artifact the build left at its conventional path in the working
\* copy is, once copyToShippableFolder has returned, in the output folder
\* under its fixed name
C24_BuiltArtifactCollected ==
    [][(pc = "copyToShippableFolder" /\ pc' = "done") =>
         \A a \in artifactTable :
             \A q \in filesUnder(fs, a.from) :
                 /\ isFile(fs', Rebase(q, a.from, a.to))
                 /\ fs'[Rebase(q, a.from, a.to)] = fs[q]]_vars

\* the step in which the user answers a confirmation prompt with no: the
\* existing destination is kept, or the Xcode changes are not applied
declined ==
    \/ /\ pc = "copyProject"
       /\ cfg.pipeline \in {"android", "ios"}
       /\ pathExists(fs, projectDir)
       /\ pc' # pc
       /\ fs' = fs
    \/ /\ pc \in {"confirmXcodeChanges", "confirmXcodeChangesAgain"}
       /\ pc' # "updateFiles"

\* C25: a confirmation prompt is asked once: when the user declines, the run
\* ends cancelled and the same question is not asked again
C25_DeclineEndsRun ==
    [][declined => (outcome' = "cancelled" /\ pc' = "done")]_vars

\* the name of the folder the working copy is made in
folderName == projectDir[Len(projectDir)]

\* C26: for a bundle identifier of alphanumeric segments joined by dots the
\* folder name is the identifier with every dot replaced by an underscore,
\* no dot is left in it, and no other such identifier has the same folder
\* name
C26_FolderNameOfIdentifier ==
    (cfg.bundleName \in ValidBundleIds /\ "Materializer" \in returned) =>
        /\ pathExists(fs, projectDir)
        /\ Len(folderName) = Len(cfg.bundleName)
        /\ \A i \in 1..Len(folderName) :
               folderName[i] = IF cfg.bundleName[i] = "." THEN "_"
                               ELSE cfg.bundleName[i]
        /\ \A i \in 1..Len(folderName) : folderName[i] # "."
        /\ \A b \in ValidBundleIds :
               convertBundleNameToFolderName(b) = folderName => b = cfg.bundleName

\* a working copy was made for an identifier of three segments
C26_Witness ==
    /\ cfg.bundleName \in ValidBundleIds
    /\ "Materializer" \in returned
    /\ Cardinality({ i \in 1..Len(cfg.bundleName) : cfg.bundleName[i] = "." }) = 2
    /\ pathExists(fs, projectDir)

\* the step in which updateAndroidFiles runs on a working copy that has no
\* entry file under the old package path
relocationFails ==
    /\ pc = "updateFiles"
    /\ pc' # pc
    /\ cfg.buildAndroid
    /\ ~manifestLacksPackage
    /\ isFile(fs, buildGradlePath(projectDir))
    /\ \A n \in entryFiles : ~pathExists(fs, oldPackagePath \o <<n>>)

\* C27: when updateAndroidFiles fails at the relocation of the entry file,
\* the manifest and build.gradle are as they were, with the old identifier,
\* and no directory of the new package exists
C27_NoHalfRename ==
    [][relocationFails =>
         /\ "IdentityRewriter" \notin returned'
         /\ fs'[androidManifestPath(projectDir)] = fs[androidManifestPath(projectDir)]
         /\ fs'[buildGradlePath(projectDir)] = fs[buildGradlePath(projectDir)]
         /\ ~pathExists(fs', newPackagePath)]_vars

\* C28: the output folder copyToShippableFolder fills is not the working
\* copy; collection leaves every file of the working copy as it was, and no
\* file of the project is in the output folder afterwards
C28_OutputApartFromWorkingCopy ==
    [][(pc = "copyToShippableFolder" /\ pc' = "done") =>
         /\ shippableAppDir(cfg) # projectDir
         /\ \A q \in filesUnder(fs, projectDir) : isFile(fs', q) /\ fs'[q] = fs[q]
         /\ pubspecPath(shippableAppDir(cfg)) \notin DOMAIN fs'
         /\ filesUnder(fs', shippableAppDir(cfg)) \cap filesUnder(fs', projectDir) = {}]_vars

\* C29: copyProject with the self-nesting check turns down genuine nesting
\* only: when the source exists and the destination is neither the source
\* nor inside it, the copy is made
C29_OnlyGenuineNestingRejected ==
    [][(pc = "copyProject" /\ pc' # pc
          /\ cfg.pipeline \in {"multi", "part_001"}
          /\ pathExists(fs, cfg.folder)
          /\ ~IsSameOrDescendant(projectDir, cfg.folder)) =>
         /\ "Materializer" \in returned'
         /\ outcome' # "crashed"]_vars

\* the step in which the identity rewriters of the running script succeed
identityRewritten ==
    /\ "IdentityRewriter" \notin returned
    /\ "IdentityRewriter" \in returned'

\* C30: the display name and the bundle identifier are written as they
\* were supplied: after the rewrite the android:label value of the manifest
\* and the CFBundleName and CFBundleIdentifier values of Info.plist are the
\* supplied texts, whatever characters they hold
C30_ValuesWrittenLiterally ==
    [][identityRewritten =>
         /\ (cfg.pipeline \in {"android", "part_001"} =>
                captured(fs'[androidManifestPath(projectDir)],
                         "android:label=\"", "\"", 1) = cfg.appName)
         /\ (cfg.buildIOS =>
                captured(fs'[infoPlistPath(projectDir)],
                         "<key>CFBundleName</key><string>", "</string>", 1)
                    = cfg.appName)
         /\ (cfg.pipeline = "ios" =>
                captured(fs'[infoPlistPath(projectDir)],
                         "<key>CFBundleIdentifier</key><string>", "</string>", 1)
                    = cfg.bundleName)]_vars

====
